---------------------------- MODULE Spec2Model ----------------------------
(***************************************************************************)
(* Model of the report-delivery pipeline of the AI Health Report Manager   *)
(* (src/proj.py): generate_ai_report, create_pdf_report, validate_email,   *)
(* send_email_with_report, and the three callers that drive them           *)
(* (send_bulk_reports, send_individual_report, email_patient_report).      *)
(*                                                                         *)
(* Strings that the code builds by interpolation are modelled as tuples of *)
(* their parts (f"{name}: {message}" is <<name, message>>); a text is a    *)
(* sequence of tokens, each either a newline "\n" or a newline-free piece. *)
(* An e-mail address is a sequence of one-character strings.               *)
(***************************************************************************)
EXTENDS Integers, Sequences, FiniteSets, TLC

(***************************************************************************)
(* Bounds of the model.                                                    *)
(***************************************************************************)
\* number of distinct patient ids the store may hold
MaxPatients == 2

PatientIds == 1..MaxPatients

\* an environment variable that is not set (os.getenv returns None)
Unset == "<unset>"

\* a local that holds no value (not yet assigned, or dead)
NoValue == <<"no value">>

(***************************************************************************)
(* validate_email: re.match(r'^[a-zA-Z0-9._%+-]+@[a-zA-Z0-9.-]+\.[a-zA-Z]  *)
(* {2,}$', email).  The matcher below decides the same language on         *)
(* sequences of characters: some "@" splits a non-empty local part from    *)
(* the rest, and some later "." splits a non-empty domain from a final     *)
(* label of two or more letters.  "$" also matches before one trailing     *)
(* newline.                                                                *)
(***************************************************************************)
Letters ==
    {"a", "b", "c", "d", "e", "i", "l", "m", "n", "o", "t", "x", "z", "A",
     "Z"}

Digits == {"0", "1", "9"}

LocalChars == Letters \cup Digits \cup {".", "_", "%", "+", "-"}

DomainChars == Letters \cup Digits \cup {".", "-"}

AllIn(s, from, to, chars) == \A k \in from..to : s[k] \in chars

MatchesUpTo(s, n) ==
    \E i \in 2..n : \E j \in (i + 2)..(n - 2) :
        /\ AllIn(s, 1, i - 1, LocalChars)
        /\ s[i] = "@"
        /\ AllIn(s, i + 1, j - 1, DomainChars)
        /\ s[j] = "."
        /\ AllIn(s, j + 1, n, Letters)

validate_email(email) ==
    \/ MatchesUpTo(email, Len(email))
    \/ /\ Len(email) >= 1
       /\ email[Len(email)] = "\n"
       /\ MatchesUpTo(email, Len(email) - 1)

\* "jane@example.com" shortened, and "not-an-email"
EmailJane == <<"a", "@", "b", ".", "c", "o">>
EmailNotAnEmail ==
    <<"n", "o", "t", "-", "a", "n", "-", "e", "m", "a", "i", "l">>

Emails == {EmailJane, EmailNotAnEmail}


(***************************************************************************)
(* Results of a call: a returned value or a raised exception.              *)
(***************************************************************************)
Returned(v) == [raised |-> FALSE, value |-> v, exc |-> NoValue]

Raised(e) == [raised |-> TRUE, value |-> NoValue, exc |-> e]

(***************************************************************************)
(* Environment: os.getenv, and the Gemini model object of init_gemini      *)
(* (None without GEMINI_API_KEY).                                          *)
(***************************************************************************)
Getenv(env, name, default) ==
    IF env[name] = Unset THEN default ELSE env[name]

\* Python truthiness of an os.getenv result: None and "" are falsy
Truthy(s) == s \notin {Unset, ""}

\* int(s) for the port strings of the model; any other string raises
\* ValueError
IntValue ==
    [s \in {"587", "465", "34", "35"} |->
        CASE s = "587" -> 587 [] s = "465" -> 465 [] s = "34" -> 34
          [] s = "35" -> 35]

\* the environments of the model.  A password without a sender address
\* takes the branch of line 268 that no credentials at all take.
Environments ==
    {e \in [GEMINI_API_KEY : {Unset, "key"},
            SENDER_EMAIL : {Unset, "clinic@example.com"},
            SENDER_PASSWORD : {Unset, "app-password"},
            SMTP_PORT : {Unset, ""}] :
        e.SENDER_EMAIL = Unset => e.SENDER_PASSWORD = Unset}

init_gemini(env) == Truthy(env.GEMINI_API_KEY)

(***************************************************************************)
(* generate_ai_report.  gen is what model.generate_content does if it is   *)
(* called: it returns a text or raises.  calls counts the external calls   *)
(* the function made.                                                      *)
(***************************************************************************)
TextSummary == <<"Summary of the diagnosis.">>
TextTwoParagraphs ==
    <<"Summary of the diagnosis.", "\n", "\n", "Follow-up care.">>

Texts == {TextSummary, TextTwoParagraphs}

GenOutcomes ==
    {[raises |-> FALSE, text |-> t, err |-> NoValue] : t \in Texts}
        \cup {[raises |-> TRUE, text |-> NoValue, err |-> <<"429 quota exceeded">>]}

MsgAiUnavailable ==
    <<"AI service unavailable. Please configure GEMINI_API_KEY in your .env file.">>

\* variant without the except clause of lines 161-162: the error of the
\* external call propagates
generate_ai_report_propagates(patient_data, model, gen) ==
    IF ~model
    THEN [res |-> Returned(MsgAiUnavailable), calls |-> 0]
    ELSE IF gen.raises
         THEN [res |-> Raised(gen.err), calls |-> 1]
         ELSE [res |-> Returned(gen.text), calls |-> 1]

generate_ai_report(patient_data, model, gen) ==
    IF ~model
    THEN [res |-> Returned(MsgAiUnavailable), calls |-> 0]
    ELSE IF gen.raises
         THEN [res |-> Returned(<<"Error generating AI report: ">> \o gen.err),
               calls |-> 1]
         ELSE [res |-> Returned(gen.text), calls |-> 1]

(***************************************************************************)
(* create_pdf_report.  The story is the list of blocks handed to           *)
(* doc.build; the narrative is split on "\n\n" and each non-blank piece,   *)
(* stripped, becomes a Paragraph followed by a Spacer.  doc.build (or the  *)
(* Paragraph mark-up parser) may raise; render_raises says whether it      *)
(* does.                                                                   *)
(***************************************************************************)
Whitespace == {"\n", " "}

SubSeqFrom(s, k) == SubSeq(s, k, Len(s))

\* index of the first "\n\n" in s, or 0
FirstBreak(s) ==
    LET hits == {k \in 1..(Len(s) - 1) : s[k] = "\n" /\ s[k + 1] = "\n"}
    IN  IF hits = {} THEN 0 ELSE CHOOSE k \in hits : \A h \in hits : k <= h

RECURSIVE SplitEveryNewline(_)
\* variant that splits at every "\n"
SplitEveryNewline(s) ==
    LET hits == {k \in DOMAIN s : s[k] = "\n"}
    IN  IF hits = {}
        THEN <<s>>
        ELSE LET k == CHOOSE h \in hits : \A g \in hits : h <= g
             IN  <<SubSeq(s, 1, k - 1)>>
                     \o SplitEveryNewline(SubSeqFrom(s, k + 1))

RECURSIVE SplitBlankLines(_)
\* line 228: ai_report.split('\n\n')
SplitBlankLines(s) ==
    LET k == FirstBreak(s)
    IN  IF k = 0
        THEN <<s>>
        ELSE <<SubSeq(s, 1, k - 1)>> \o SplitBlankLines(SubSeqFrom(s, k + 2))

RECURSIVE Strip(_)
Strip(s) ==
    IF s = <<>> THEN s
    ELSE IF s[1] \in Whitespace THEN Strip(Tail(s))
    ELSE IF s[Len(s)] \in Whitespace THEN Strip(SubSeq(s, 1, Len(s) - 1))
    ELSE s

RECURSIVE ParagraphBlocks(_)
ParagraphBlocks(paras) ==
    IF paras = <<>> THEN <<>>
    ELSE (IF Strip(Head(paras)) # <<>>
          THEN <<[type |-> "Paragraph", content |-> Strip(Head(paras))],
                 [type |-> "Spacer", content |-> <<"1", "10">>]>>
          ELSE <<>>) \o ParagraphBlocks(Tail(paras))

PatientInfoData(patient_data) ==
    <<<<"Patient ID:", patient_data.patient_id>>,
      <<"Name:", patient_data.name>>,
      <<"Age:", <<patient_data.age, " years">>>>,
      <<"Email:", patient_data.email>>,
      <<"Diagnosis:", patient_data.diagnosis>>,
      <<"Report Date:", "now">>>>

Story(patient_data, ai_report) ==
    <<[type |-> "Paragraph", content |-> <<"HEALTH REPORT">>],
      [type |-> "Spacer", content |-> <<"1", "12">>],
      [type |-> "Paragraph", content |-> <<"Patient Information">>],
      [type |-> "Table", content |-> PatientInfoData(patient_data)],
      [type |-> "Spacer", content |-> <<"1", "20">>],
      [type |-> "Paragraph", content |-> <<"Medical Analysis & Recommendations">>]>>
        \o ParagraphBlocks(SplitBlankLines(ai_report))
        \o <<[type |-> "Spacer", content |-> <<"1", "30">>],
             [type |-> "Paragraph", content |-> <<"This report was generated by AI Health Report Manager.">>]>>

MsgRenderError == <<"doc.build failed">>

create_pdf_report(patient_data, ai_report, render_raises) ==
    IF render_raises
    THEN Raised(MsgRenderError)
    ELSE Returned(Story(patient_data, ai_report))

(***************************************************************************)
(* send_email_with_report.  smtp names the SMTP call that raises, or "ok"  *)
(* if none does.  net is the sequence of calls made on the relay, the      *)
(* raising one included.                                                   *)
(***************************************************************************)
SmtpCalls == <<"SMTP", "starttls", "login", "send_message", "quit">>

SmtpOutcomes == {"ok"} \cup {SmtpCalls[k] : k \in 1..Len(SmtpCalls)}

CallIndex(call) == CHOOSE k \in 1..Len(SmtpCalls) : SmtpCalls[k] = call

NetCalls(smtp) ==
    IF smtp = "ok" THEN SmtpCalls ELSE SubSeq(SmtpCalls, 1, CallIndex(smtp))

MsgNoCredentials == <<"Email credentials not configured in .env file">>

MsgInvalidEmail == <<"Invalid email format">>

MsgSent == <<"Email sent successfully">>

MsgSendError(smtp) == <<"Error sending email: ", smtp>>

MsgBadPort(s) == <<"invalid literal for int() with base 10: ", s>>

\* variant that runs the SMTP calls a second time after a failure
send_email_with_report_retries(patient_data, pdf_buffer, env, smtp) ==
    IF Getenv(env, "SMTP_PORT", "587") \notin DOMAIN IntValue
    THEN [res |-> Raised(MsgBadPort(Getenv(env, "SMTP_PORT", "587"))),
          net |-> <<>>]
    ELSE IF ~(Truthy(env.SENDER_EMAIL) /\ Truthy(env.SENDER_PASSWORD))
    THEN [res |-> Returned(<<FALSE, MsgNoCredentials>>), net |-> <<>>]
    ELSE IF ~validate_email(patient_data.email)
    THEN [res |-> Returned(<<FALSE, MsgInvalidEmail>>), net |-> <<>>]
    ELSE IF smtp = "ok"
    THEN [res |-> Returned(<<TRUE, MsgSent>>), net |-> NetCalls("ok")]
    ELSE [res |-> Returned(<<FALSE, MsgSendError(smtp)>>),
          net |-> NetCalls(smtp) \o NetCalls(smtp)]

send_email_with_report(patient_data, pdf_buffer, env, smtp) ==
    IF Getenv(env, "SMTP_PORT", "587") \notin DOMAIN IntValue
    THEN [res |-> Raised(MsgBadPort(Getenv(env, "SMTP_PORT", "587"))),
          net |-> <<>>]
    ELSE IF ~(Truthy(env.SENDER_EMAIL) /\ Truthy(env.SENDER_PASSWORD))
    THEN [res |-> Returned(<<FALSE, MsgNoCredentials>>), net |-> <<>>]
    ELSE IF ~validate_email(patient_data.email)
    THEN [res |-> Returned(<<FALSE, MsgInvalidEmail>>), net |-> <<>>]
    ELSE IF smtp = "ok"
    THEN [res |-> Returned(<<TRUE, MsgSent>>), net |-> NetCalls("ok")]
    ELSE [res |-> Returned(<<FALSE, MsgSendError(smtp)>>),
          net |-> NetCalls(smtp)]

(***************************************************************************)
(* State.                                                                  *)
(*   env, patients, selected_patients: the process environment, the        *)
(*     patients table and st.session_state.selected_patients;              *)
(*   pc, entry: where the running handler is, and which handler it is;     *)
(*   selected_df .. pdf_buffer: the handler's locals;                      *)
(*   ui: what the handler has shown when it ends; escaped: the exception   *)
(*     that left the handler, if any;                                      *)
(*   log, outcomes, gen_outcome, delivery: history of the run, kept for    *)
(*     the properties: the calls made, in order, as <<call, position of    *)
(*     the record>>; what became of each record; what the external         *)
(*     generation call of the record in hand did; and what the last call   *)
(*     of send_email_with_report gave, with what the relay did in it.      *)
(*   df: the listing send_bulk_reports was called with, until its loop     *)
(*     starts;                                                             *)
(*   now, next_id: the clock, in seconds, and the next value of the        *)
(*     AUTOINCREMENT id of the patients table;                             *)
(*   uploaded, last_op, prev_selected: history kept for the properties:    *)
(*     the row insert_patient_data handled last, the last operation on     *)
(*     the table or the selection, and the selection before it.            *)
(***************************************************************************)
VARIABLES env, patients, selected_patients, pc, entry, selected_df, patient,
          idx, total, success_count, error_count, errors, ai_report,
          pdf_buffer, ui, escaped, log, outcomes, gen_outcome, delivery,
          df, now, next_id, uploaded, last_op, prev_selected

vars == <<env, patients, selected_patients, pc, entry, selected_df, patient,
          idx, total, success_count, error_count, errors, ai_report,
          pdf_buffer, ui, escaped, log, outcomes, gen_outcome, delivery,
          df, now, next_id, uploaded, last_op, prev_selected>>

\* what no step of a report run assigns
config ==
    <<env, patients, selected_patients, now, next_id, uploaded, last_op,
      prev_selected>>

NameOf(n) == IF n % 2 = 1 THEN "Jane Doe" ELSE "Raj Patel"

Row(n, email) ==
    [id |-> n, patient_id |-> n, name |-> NameOf(n), age |-> 34,
     diagnosis |-> "Hypertension", email |-> email, created_at |-> 1]

\* the tables the model starts from: any patients, one row per patient_id
Tables ==
    UNION {{{Row(n, f[n]) : n \in S} : f \in [S -> Emails]} :
           S \in SUBSET PatientIds}

\* get_all_patients: SELECT * FROM patients ORDER BY created_at DESC.  Rows
\* with equal created_at come in an order SQL leaves open.
get_all_patients(table) ==
    {rows \in [1..Cardinality(table) -> table] :
        /\ \A i, j \in DOMAIN rows : i # j => rows[i] # rows[j]
        /\ \A i, j \in DOMAIN rows :
              i < j => rows[i].created_at >= rows[j].created_at}

RECURSIVE SelectedRowsReversed(_, _)
\* variant that gives the selected rows last row first
SelectedRowsReversed(rows, selected) ==
    IF rows = <<>> THEN <<>>
    ELSE SelectedRowsReversed(Tail(rows), selected)
             \o (IF Head(rows).patient_id \in selected THEN <<Head(rows)>>
                 ELSE <<>>)

RECURSIVE SelectedRows(_, _)
\* df[df['patient_id'].isin(selected)]: the rows of the listing whose
\* patient_id is selected, in the listing's order
SelectedRows(rows, selected) ==
    IF rows = <<>> THEN <<>>
    ELSE (IF Head(rows).patient_id \in selected THEN <<Head(rows)>> ELSE <<>>)
             \o SelectedRows(Tail(rows), selected)

\* the external generation call was not made
NotCalled == [raises |-> FALSE, text |-> NoValue, err |-> NoValue]

\* send_email_with_report has not been called for the record in hand
NoDelivery ==
    [called |-> FALSE, res |-> Returned(NoValue), net |-> <<>>,
     smtp |-> "not reached"]

Init ==
    /\ env \in Environments
    /\ patients \in Tables
    /\ selected_patients \in SUBSET PatientIds
    /\ pc = "idle"
    /\ entry = "none"
    /\ selected_df = <<>>
    /\ patient = NoValue
    /\ idx = 0
    /\ total = 0
    /\ success_count = 0
    /\ error_count = 0
    /\ errors = <<>>
    /\ ai_report = NoValue
    /\ pdf_buffer = NoValue
    /\ ui = <<>>
    /\ escaped = NoValue
    /\ log = <<>>
    /\ outcomes = <<>>
    /\ gen_outcome = NotCalled
    /\ delivery = NoDelivery
    /\ df = <<>>
    /\ now = 1
    /\ next_id = MaxPatients + 1
    /\ uploaded = <<>>
    /\ last_op = <<"none">>
    /\ prev_selected = {}

\* no handler is running
Idle == pc = "idle"

\* position (from 1) of the record being processed
Pos == idx + 1

Calls(name, n) == [k \in 1..n |-> <<name, Pos>>]

NetLog(net) == [k \in 1..Len(net) |-> <<net[k], Pos>>]

(***************************************************************************)
(* send_bulk_reports(df, gemini_model), called from the "Send N Reports"   *)
(* button of show_bulk_send_section.  One action per statement group of    *)
(* the loop body; an action in which a call raises also runs the handler   *)
(* of the enclosing except clause.                                         *)
(***************************************************************************)
\* variant without line 858: no pause between records
AfterStepNoSleep(step, raised) ==
    IF raised THEN "b_progress"
    ELSE CASE step = "b_status" -> "b_generate"
           [] step = "b_generate" -> "b_render"
           [] step = "b_render" -> "b_deliver"
           [] step = "b_deliver" -> "b_progress"
           [] step = "b_sleep" -> "b_progress"

\* variant with lines 843 and 846 exchanged
AfterStepRenderFirst(step, raised) ==
    IF raised THEN "b_progress"
    ELSE CASE step = "b_status" -> "b_render"
           [] step = "b_render" -> "b_generate"
           [] step = "b_generate" -> "b_deliver"
           [] step = "b_deliver" -> "b_sleep"
           [] step = "b_sleep" -> "b_progress"

\* the loop body's control flow: the step that follows `step`, given
\* whether an exception was raised in it
AfterStep(step, raised) ==
    IF raised THEN "b_progress"
    ELSE CASE step = "b_status" -> "b_generate"
           [] step = "b_generate" -> "b_render"
           [] step = "b_render" -> "b_deliver"
           [] step = "b_deliver" -> "b_sleep"
           [] step = "b_sleep" -> "b_progress"

\* variant that counts a failure without listing it
ClassifyFailureUnlisted(success, message) ==
    IF success
    THEN [success_count |-> success_count + 1, error_count |-> error_count,
          errors |-> errors]
    ELSE [success_count |-> success_count, error_count |-> error_count + 1,
          errors |-> errors]

\* variant that puts a new failure at the head of the list
ClassifyPrepend(success, message) ==
    IF success
    THEN [success_count |-> success_count + 1, error_count |-> error_count,
          errors |-> errors]
    ELSE [success_count |-> success_count, error_count |-> error_count + 1,
          errors |-> <<<<patient.name, message>>>> \o errors]

\* lines 851-855: the counters and the error list after a delivery that
\* returned (success, message)
Classify(success, message) ==
    IF success
    THEN [success_count |-> success_count + 1, error_count |-> error_count,
          errors |-> errors]
    ELSE [success_count |-> success_count, error_count |-> error_count + 1,
          errors |-> Append(errors, <<patient.name, message>>)]

\* variant whose except clause swallows the exception without counting it
BatchExceptNotCounted(exc) ==
    [success_count |-> success_count, error_count |-> error_count,
     errors |-> errors]

\* lines 860-862: the handler of the loop body's except clause
BatchExcept(exc) ==
    [success_count |-> success_count, error_count |-> error_count + 1,
     errors |-> Append(errors, <<patient.name, exc>>)]

\* lines 871-878: what is shown once the loop has ended
BatchResults(s, e, errs) ==
    (IF s > 0 THEN <<<<"success", <<"Successfully sent ", s, " reports!">>>>>>
     ELSE <<>>)
        \o (IF e > 0
            THEN <<<<"error", <<"Failed to send ", e, " reports">>>>>>
                     \o [k \in 1..Len(errs) |-> <<"write", errs[k]>>]
            ELSE <<>>)

\* lines 754-756 and 820-836: the button is there when a patient is
\* selected; the selected rows of the listing are the batch
SendBulkReports ==
    /\ Idle
    /\ df' \in get_all_patients(patients)
    /\ Len(df') > 0
    /\ Cardinality(selected_patients) > 0
    /\ selected_df' = SelectedRows(df', selected_patients)
    /\ entry' = "send_bulk_reports"
    /\ total' = Len(selected_df')
    /\ idx' = 0
    /\ success_count' = 0
    /\ error_count' = 0
    /\ errors' = <<>>
    /\ patient' = NoValue
    /\ ai_report' = NoValue
    /\ pdf_buffer' = NoValue
    /\ escaped' = NoValue
    /\ log' = <<>>
    /\ outcomes' = <<>>
    /\ gen_outcome' = NotCalled
    /\ delivery' = NoDelivery
    /\ ui' = <<>>
    /\ pc' = IF total' = 0 THEN "done" ELSE "b_status"
    /\ UNCHANGED config

\* variant that names the first row of the batch whatever the round
StatusLogFirstRow ==
    Append(log, <<"status_text", Pos, selected_df[1].name>>)

\* line 839: status_text.text("Processing {name} ({idx + 1}/{total})..."),
\* logged with the index and the name it shows
StatusLog == Append(log, <<"status_text", Pos, selected_df[Pos].name>>)

\* line 838-839: the loop takes the next row and announces it.  The
\* listing is not read after line 826; the loop runs on selected_df alone.
BatchStatus ==
    /\ pc = "b_status"
    /\ patient' = selected_df[Pos]
    /\ log' = StatusLog
    /\ pc' = AfterStep("b_status", FALSE)
    /\ gen_outcome' = NotCalled
    /\ delivery' = NoDelivery
    /\ df' = <<>>
    /\ UNCHANGED <<config, entry, selected_df, idx, total, success_count,
                   error_count, errors, ai_report, pdf_buffer, ui, escaped,
                   outcomes>>

\* line 843
BatchGenerate ==
    /\ pc = "b_generate"
    /\ \E gen \in GenOutcomes :
          LET g == generate_ai_report(patient, init_gemini(env), gen)
              c == IF g.res.raised THEN BatchExcept(g.res.exc)
                   ELSE [success_count |-> success_count,
                         error_count |-> error_count, errors |-> errors]
          IN  /\ log' = log \o <<<<"generate_ai_report", Pos>>>>
                            \o Calls("generate_content", g.calls)
              /\ ai_report' = IF g.res.raised THEN ai_report ELSE g.res.value
              /\ success_count' = c.success_count
              /\ error_count' = c.error_count
              /\ errors' = c.errors
              /\ outcomes' = IF g.res.raised
                             THEN Append(outcomes, "generate raised")
                             ELSE outcomes
              /\ gen_outcome' = IF g.calls > 0 THEN gen ELSE NotCalled
              /\ pc' = AfterStep("b_generate", g.res.raised)
    /\ UNCHANGED <<config, df, entry, selected_df, patient, idx, total,
                   pdf_buffer, ui, escaped,
                   delivery>>

\* line 846
BatchRender ==
    /\ pc = "b_render"
    /\ \E render_raises \in BOOLEAN :
          LET r == create_pdf_report(patient, ai_report, render_raises)
              c == IF r.raised THEN BatchExcept(r.exc)
                   ELSE [success_count |-> success_count,
                         error_count |-> error_count, errors |-> errors]
          IN  /\ log' = Append(log, <<"create_pdf_report", Pos>>)
              /\ gen_outcome' = NotCalled
              /\ pdf_buffer' = IF r.raised THEN pdf_buffer ELSE r.value
              /\ success_count' = c.success_count
              /\ error_count' = c.error_count
              /\ errors' = c.errors
              /\ outcomes' = IF r.raised
                             THEN Append(outcomes, "render raised")
                             ELSE outcomes
              /\ pc' = AfterStep("b_render", r.raised)
    /\ UNCHANGED <<config, df, entry, selected_df, patient, idx, total,
                   ai_report, ui, escaped,
                   delivery>>

\* lines 849-855
BatchDeliver ==
    /\ pc = "b_deliver"
    /\ \E smtp \in SmtpOutcomes :
          LET d == send_email_with_report(patient, pdf_buffer, env, smtp)
              c == IF d.res.raised THEN BatchExcept(d.res.exc)
                   ELSE Classify(d.res.value[1], d.res.value[2])
          IN  /\ log' = log \o <<<<"send_email_with_report", Pos>>>>
                            \o NetLog(d.net)
              /\ success_count' = c.success_count
              /\ error_count' = c.error_count
              /\ errors' = c.errors
              /\ outcomes' =
                    Append(outcomes,
                           IF d.res.raised THEN "deliver raised"
                           ELSE IF d.res.value[1] THEN "sent" ELSE "not sent")
              /\ delivery' =
                    [called |-> TRUE, res |-> d.res, net |-> d.net,
                     smtp |-> IF d.net = <<>> THEN "not reached" ELSE smtp]
              /\ pc' = AfterStep("b_deliver", d.res.raised)
    /\ UNCHANGED <<config, df, entry, selected_df, patient, idx, total,
                   ai_report, pdf_buffer, ui, escaped,
                   gen_outcome>>

\* line 858
BatchSleep ==
    /\ pc = "b_sleep"
    /\ log' = Append(log, <<"sleep", Pos>>)
    /\ pc' = AfterStep("b_sleep", FALSE)
    /\ UNCHANGED <<config, df, entry, selected_df, patient, idx, total,
                   success_count, error_count, errors, ai_report, pdf_buffer,
                   ui, escaped, outcomes,
                   gen_outcome, delivery>>

\* variant with line 865 inside the try block: no update after an exception
ProgressLogSkippedOnRaise ==
    IF outcomes[Pos] \in {"generate raised", "render raised", "deliver raised"}
    THEN log
    ELSE Append(log, <<"progress", Pos>>)

\* line 865: progress_bar.progress((idx + 1) / total), logged as the index
ProgressLog == Append(log, <<"progress", Pos>>)

\* variant that takes a record that was sent out of the selection
SelectionWithoutSent ==
    IF outcomes[Pos] = "sent"
    THEN selected_patients \ {patient.patient_id}
    ELSE selected_patients

\* lines 838-878: st.session_state.selected_patients is read at lines 822
\* and 826 and assigned nowhere in send_bulk_reports
SelectionAfterRound == selected_patients

\* line 865, then the loop's next round or lines 868-878.  ai_report and
\* pdf_buffer are dead here: the next round assigns them before reading.
BatchProgress ==
    /\ pc = "b_progress"
    /\ log' = ProgressLog
    /\ ai_report' = NoValue
    /\ pdf_buffer' = NoValue
    /\ selected_patients' = SelectionAfterRound
    /\ IF Pos < total
       THEN /\ idx' = idx + 1
            /\ pc' = "b_status"
            /\ ui' = ui
       ELSE /\ idx' = idx
            /\ pc' = "done"
            /\ ui' = BatchResults(success_count, error_count, errors)
    /\ UNCHANGED <<env, patients, now, next_id, uploaded, last_op,
                   prev_selected, df, entry, selected_df, patient, total,
                   success_count, error_count, errors, escaped, outcomes,
                   gen_outcome, delivery>>

(***************************************************************************)
(* The single-record handlers: send_individual_report ("Send Individual"   *)
(* in show_bulk_send_section) and email_patient_report ("Email Report" in  *)
(* show_patients_section and show_search_section).  Both run generate,     *)
(* render, deliver for the row the button belongs to;                      *)
(* send_individual_report does so inside try/except, email_patient_report  *)
(* does not.                                                               *)
(***************************************************************************)
SingleEntries == {"send_individual_report", "email_patient_report"}

\* what an exception raised in the body of handler e leads to: lines
\* 898-899 show it; email_patient_report has no handler and lets it out
SingleRaised(e, exc) ==
    IF e = "send_individual_report"
    THEN [ui |-> <<<<"error", <<"Error sending report to ", patient.name,
                               ": ", exc>>>>>>,
          escaped |-> NoValue]
    ELSE [ui |-> <<>>, escaped |-> exc]

\* lines 893-896 and 1003-1006: what is shown for (success, message)
SingleShown(e, success, message) ==
    IF e = "send_individual_report"
    THEN IF success
         THEN <<<<"success",
                  <<"Report sent successfully to ", patient.name>>>>>>
         ELSE <<<<"error", <<"Failed to send report to ", patient.name,
                            ": ", message>>>>>>
    ELSE IF success
         THEN <<<<"success", message>>>>
         ELSE <<<<"error", message>>>>

SingleStart(e) ==
    /\ Idle
    /\ \E rows \in get_all_patients(patients) :
          \E k \in 1..Len(rows) : patient' = rows[k]
    /\ df' = <<>>
    /\ entry' = e
    /\ selected_df' = <<>>
    /\ total' = 0
    /\ idx' = 0
    /\ success_count' = 0
    /\ error_count' = 0
    /\ errors' = <<>>
    /\ ai_report' = NoValue
    /\ pdf_buffer' = NoValue
    /\ escaped' = NoValue
    /\ log' = <<>>
    /\ outcomes' = <<>>
    /\ gen_outcome' = NotCalled
    /\ delivery' = NoDelivery
    /\ ui' = <<>>
    /\ pc' = "s_generate"
    /\ UNCHANGED config

\* line 794-795
SendIndividualReport == SingleStart("send_individual_report")

\* lines 930-931 and 1052-1053
EmailPatientReport == SingleStart("email_patient_report")

\* lines 885 and 995
SingleGenerate ==
    /\ pc = "s_generate"
    /\ \E gen \in GenOutcomes :
          LET g == generate_ai_report(patient, init_gemini(env), gen)
              x == SingleRaised(entry, g.res.exc)
          IN  /\ log' = log \o <<<<"generate_ai_report", Pos>>>>
                            \o Calls("generate_content", g.calls)
              /\ ai_report' = IF g.res.raised THEN ai_report ELSE g.res.value
              /\ ui' = IF g.res.raised THEN x.ui ELSE ui
              /\ escaped' = IF g.res.raised THEN x.escaped ELSE escaped
              /\ outcomes' = IF g.res.raised
                             THEN Append(outcomes, "generate raised")
                             ELSE outcomes
              /\ gen_outcome' = IF g.calls > 0 THEN gen ELSE NotCalled
              /\ pc' = IF g.res.raised THEN "done" ELSE "s_render"
    /\ UNCHANGED <<config, df, entry, selected_df, patient, idx, total,
                   success_count, error_count, errors, pdf_buffer,
                   delivery>>

\* lines 888 and 998
SingleRender ==
    /\ pc = "s_render"
    /\ \E render_raises \in BOOLEAN :
          LET r == create_pdf_report(patient, ai_report, render_raises)
              x == SingleRaised(entry, r.exc)
          IN  /\ log' = Append(log, <<"create_pdf_report", Pos>>)
              /\ gen_outcome' = NotCalled
              /\ pdf_buffer' = IF r.raised THEN pdf_buffer ELSE r.value
              /\ ui' = IF r.raised THEN x.ui ELSE ui
              /\ escaped' = IF r.raised THEN x.escaped ELSE escaped
              /\ outcomes' = IF r.raised
                             THEN Append(outcomes, "render raised")
                             ELSE outcomes
              /\ pc' = IF r.raised THEN "done" ELSE "s_deliver"
    /\ UNCHANGED <<config, df, entry, selected_df, patient, idx, total,
                   success_count, error_count, errors, ai_report,
                   delivery>>

\* lines 891-896 and 1001-1006
SingleDeliver ==
    /\ pc = "s_deliver"
    /\ \E smtp \in SmtpOutcomes :
          LET d == send_email_with_report(patient, pdf_buffer, env, smtp)
              x == SingleRaised(entry, d.res.exc)
          IN  /\ log' = log \o <<<<"send_email_with_report", Pos>>>>
                            \o NetLog(d.net)
              /\ ui' = IF d.res.raised THEN x.ui
                       ELSE SingleShown(entry, d.res.value[1], d.res.value[2])
              /\ escaped' = IF d.res.raised THEN x.escaped ELSE escaped
              /\ outcomes' =
                    Append(outcomes,
                           IF d.res.raised THEN "deliver raised"
                           ELSE IF d.res.value[1] THEN "sent" ELSE "not sent")
              /\ delivery' =
                    [called |-> TRUE, res |-> d.res, net |-> d.net,
                     smtp |-> IF d.net = <<>> THEN "not reached" ELSE smtp]
              /\ pc' = "done"
    /\ UNCHANGED <<config, df, entry, selected_df, patient, idx, total,
                   success_count, error_count, errors, ai_report, pdf_buffer,
                   gen_outcome>>

\* the handler has ended and its locals are gone; the page is shown again
HandlerEnds ==
    /\ pc = "done"
    /\ pc' = "idle"
    /\ entry' = "none"
    /\ df' = <<>>
    /\ selected_df' = <<>>
    /\ patient' = NoValue
    /\ idx' = 0
    /\ total' = 0
    /\ success_count' = 0
    /\ error_count' = 0
    /\ errors' = <<>>
    /\ ai_report' = NoValue
    /\ pdf_buffer' = NoValue
    /\ ui' = <<>>
    /\ escaped' = NoValue
    /\ log' = <<>>
    /\ outcomes' = <<>>
    /\ gen_outcome' = NotCalled
    /\ delivery' = NoDelivery
    /\ UNCHANGED config

Next ==
    \/ SendBulkReports
    \/ BatchStatus
    \/ BatchGenerate
    \/ BatchRender
    \/ BatchDeliver
    \/ BatchSleep
    \/ BatchProgress
    \/ SendIndividualReport
    \/ EmailPatientReport
    \/ SingleGenerate
    \/ SingleRender
    \/ SingleDeliver
    \/ HandlerEnds

Spec == Init /\ [][Next]_vars

(***************************************************************************)
(* create_pdf_report on its own, for every narrative text up to a length.  *)
(* The text is a sequence of tokens: words, spaces and line ends.          *)
(***************************************************************************)
MaxTextLen == 4

Tokens == {"a", "b", " ", "\n"}

NarrativeTexts == UNION {[1..n -> Tokens] : n \in 0..MaxTextLen}

\* an environment with nothing configured
EnvNone ==
    [GEMINI_API_KEY |-> Unset, SENDER_EMAIL |-> Unset,
     SENDER_PASSWORD |-> Unset, SMTP_PORT |-> Unset]

\* no report run is under way and none has left anything behind
NoRun ==
    /\ entry = "none"
    /\ selected_df = <<>>
    /\ idx = 0
    /\ total = 0
    /\ ui = <<>>
    /\ escaped = NoValue
    /\ log = <<>>
    /\ gen_outcome = NotCalled
    /\ delivery = NoDelivery
    /\ df = <<>>

run_vars ==
    <<entry, selected_df, idx, total, ui, escaped, log, gen_outcome,
      delivery, df>>

InitRender ==
    /\ env = EnvNone
    /\ patients = {}
    /\ selected_patients = {}
    /\ NoRun
    /\ pc = "r_call"
    /\ patient = Row(1, EmailJane)
    /\ ai_report \in NarrativeTexts
    /\ pdf_buffer = NoValue
    /\ outcomes = <<>>
    /\ success_count = 0
    /\ error_count = 0
    /\ errors = <<>>
    /\ now = 1
    /\ next_id = 1
    /\ uploaded = <<>>
    /\ last_op = <<"none">>
    /\ prev_selected = {}

\* whether doc.build may raise for the story.  The narrative reaches the
\* library only in the Paragraphs of line 231; a text without a non-blank
\* piece adds nothing to the fixed blocks of the story.
MayRaise(text) ==
    IF ParagraphBlocks(SplitBlankLines(text)) = <<>> THEN {FALSE}
    ELSE BOOLEAN

\* lines 165-253: one call of create_pdf_report(patient, ai_report)
CreatePdfReport ==
    /\ pc = "r_call"
    /\ \E render_raises \in MayRaise(ai_report) :
          LET r == create_pdf_report(patient, ai_report, render_raises)
          IN  /\ pdf_buffer' = IF r.raised THEN pdf_buffer ELSE r.value
              /\ outcomes' = IF r.raised THEN <<"render raised">>
                             ELSE <<"rendered">>
    /\ pc' = "r_done"
    /\ UNCHANGED <<config, run_vars, patient, ai_report, success_count,
                   error_count, errors>>

NextRender == CreatePdfReport

SpecRender == InitRender /\ [][NextRender]_vars

(***************************************************************************)
(* The patients table: insert_patient_data, called from "Upload to         *)
(* Database" of show_upload_section, and delete_patient, called from the   *)
(* delete buttons.  The rows of the uploaded file are drawn one by one, a  *)
(* step of the loop of line 75 each.                                       *)
(***************************************************************************)
\* rows an uploaded file may hold
MaxRows == 2

\* the last second the model's clock reaches
MaxClock == 2

\* the highest AUTOINCREMENT id the model hands out
MaxRowId == 4

EmailJanePadded == <<" ", "A", "@", "b", ".", "c", "o", " ">>

\* a row of the file for patient n
BaseRow(n) ==
    [Patient_ID |-> [pad |-> FALSE, id |-> n], Name |-> NameOf(n),
     Age |-> "34", Diagnosis |-> "Hypertension",
     Email |-> IF n % 2 = 1 THEN EmailJane ELSE EmailNotAnEmail]

\* a row for the same patient with every other cell different, the
\* Patient ID and the Email with blanks around them
RevisedRow(n) ==
    [Patient_ID |-> [pad |-> TRUE, id |-> n], Name |-> NameOf(n + 1),
     Age |-> "35", Diagnosis |-> "Diabetes", Email |-> EmailJanePadded]

\* a row whose Age cell int() rejects
BadAgeRow(n) == [BaseRow(n) EXCEPT !.Age = "n/a"]

UploadRows ==
    UNION {{BaseRow(n), RevisedRow(n), BadAgeRow(n)} : n \in PatientIds}

\* str(...).strip() of the Patient ID cell
StripId(cell) == cell.id

\* str.lower()
Lower(s) ==
    [k \in DOMAIN s |->
        CASE s[k] = "A" -> "a" [] s[k] = "Z" -> "z" [] OTHER -> s[k]]

\* variant that turns away a row whose e-mail fails validate_email
RowRaisesOnBadEmail(row) ==
    \/ row.Age \notin DOMAIN IntValue
    \/ ~validate_email(Lower(Strip(row.Email)))

\* lines 77-88: whether the statement raises for the row: int(row['Age'])
\* does for a cell that is no integer; no cell is checked otherwise
RowRaises(row) == row.Age \notin DOMAIN IntValue

\* lines 80-87: the values bound to the statement
StoredRow(row, rowid, current_timestamp) ==
    [id |-> rowid, patient_id |-> StripId(row.Patient_ID),
     name |-> row.Name, age |-> IntValue[row.Age],
     diagnosis |-> row.Diagnosis, email |-> Lower(Strip(row.Email)),
     created_at |-> current_timestamp]

\* variant without the conflict clause and without the UNIQUE constraint
InsertKeepingOld(table, r) == table \cup {r}

\* INSERT OR REPLACE with patient_id UNIQUE: a row with the same patient_id
\* is deleted before the new row is inserted
InsertOrReplace(table, r) ==
    {q \in table : q.patient_id # r.patient_id} \cup {r}

InitStore ==
    /\ env = EnvNone
    /\ patients = {}
    /\ selected_patients = {}
    /\ NoRun
    /\ pc = "idle"
    /\ patient = NoValue
    /\ ai_report = NoValue
    /\ pdf_buffer = NoValue
    /\ outcomes = <<>>
    /\ success_count = 0
    /\ error_count = 0
    /\ errors = <<>>
    /\ now = 1
    /\ next_id = 1
    /\ uploaded = <<>>
    /\ last_op = <<"none">>
    /\ prev_selected = {}

\* a second passes.  current_timestamp is taken once, at line 73, so time
\* that passes inside the loop does not show.
Tick ==
    /\ Idle
    /\ now < MaxClock
    /\ now' = now + 1
    /\ UNCHANGED <<env, patients, selected_patients, next_id, uploaded,
                   last_op, prev_selected, run_vars, pc, patient, ai_report,
                   pdf_buffer, outcomes, success_count, error_count, errors>>

\* lines 690-692 and 64-73: the button is pressed for a file of `total`
\* rows
UploadToDatabase ==
    /\ Idle
    /\ \E n \in 0..MaxRows :
          /\ next_id + n - 1 <= MaxRowId
          /\ total' = n
          /\ pc' = IF n = 0 THEN "u_return" ELSE "u_row"
    /\ entry' = "insert_patient_data"
    /\ idx' = 0
    /\ success_count' = 0
    /\ error_count' = 0
    /\ errors' = <<>>
    /\ uploaded' = <<>>
    /\ last_op' = <<"insert_patient_data">>
    /\ UNCHANGED <<env, patients, selected_patients, now, next_id,
                   prev_selected, selected_df, ui, escaped, log, gen_outcome,
                   delivery, df, patient, ai_report, pdf_buffer, outcomes>>

\* lines 75-91: one round of the loop, for the row at index idx
InsertRow ==
    /\ pc = "u_row"
    /\ \E row \in UploadRows :
          /\ uploaded' = <<row>>
          /\ IF RowRaises(row)
             THEN /\ error_count' = error_count + 1
                  /\ errors' = Append(errors,
                                      <<"Row ", idx + 1, ": ",
                                        "invalid literal for int()">>)
                  /\ UNCHANGED <<patients, next_id, success_count>>
             ELSE /\ patients' =
                        InsertOrReplace(patients,
                                        StoredRow(row, next_id, now))
                  /\ next_id' = next_id + 1
                  /\ success_count' = success_count + 1
                  /\ UNCHANGED <<error_count, errors>>
    /\ idx' = idx + 1
    /\ pc' = IF idx + 1 = total THEN "u_return" ELSE "u_row"
    /\ UNCHANGED <<env, selected_patients, now, last_op, prev_selected,
                   entry, selected_df, total, ui, escaped, log, gen_outcome,
                   delivery, df, patient, ai_report, pdf_buffer, outcomes>>

\* lines 694-701: what is shown for the counts insert_patient_data returned
UploadShown(s, e, errs) ==
    (IF s > 0
     THEN <<<<"success", <<"Successfully uploaded ", s, " records!">>>>>>
     ELSE <<>>)
        \o (IF e > 0
            THEN <<<<"error", <<"Failed to upload ", e, " records">>>>>>
                     \o [k \in 1..Len(errs) |-> <<"write", errs[k]>>]
            ELSE <<>>)

\* lines 93-96 and 694-701: commit, return, show the counts
UploadReturns ==
    /\ pc = "u_return"
    /\ ui' = UploadShown(success_count, error_count, errors)
    /\ pc' = "done"
    /\ UNCHANGED <<config, entry, selected_df, idx, total, escaped, log,
                   gen_outcome, delivery, df, patient, ai_report, pdf_buffer,
                   outcomes, success_count, error_count, errors>>

\* variant that takes the deleted patient out of the selection
SelectionWithoutDeleted(patient_id) == selected_patients \ {patient_id}

\* lines 119-130, 944-946 and 1106-1109: neither delete_patient nor its
\* callers assign st.session_state.selected_patients
SelectionAfterDelete(patient_id) == selected_patients

\* lines 944 and 1106 with 119-130: a delete button of a listed patient is
\* confirmed
DeletePatient ==
    /\ Idle
    /\ \E r \in patients :
          /\ patients' = {q \in patients : q.patient_id # r.patient_id}
          /\ selected_patients' = SelectionAfterDelete(r.patient_id)
          /\ last_op' = <<"delete_patient", r.patient_id>>
    /\ prev_selected' = selected_patients
    /\ uploaded' = <<>>
    /\ UNCHANGED <<env, now, next_id, run_vars, pc, patient, ai_report,
                   pdf_buffer, outcomes, success_count, error_count, errors>>

NextStore ==
    \/ Tick
    \/ UploadToDatabase
    \/ InsertRow
    \/ UploadReturns
    \/ HandlerEnds
    \/ DeletePatient

SpecStore == InitStore /\ [][NextStore]_vars

(***************************************************************************)
(* st.session_state.selected_patients, a Python set, and the buttons of    *)
(* show_bulk_send_section that change it.                                  *)
(***************************************************************************)
\* set.add: never raises
set_add(S, x) == Returned(S \cup {x})

\* variant with set.remove, which raises KeyError for an absent element
set_remove(S, x) ==
    IF x \in S THEN Returned(S \ {x}) ELSE Raised(<<"KeyError">>)

\* set.discard: never raises
set_discard(S, x) == Returned(S \ {x})

\* variant that loses the first element of the list
ToSetOfTail(list) == {list[k] : k \in 2..Len(list)}

\* set(list)
ToSet(list) == {list[k] : k \in DOMAIN list}

\* df['patient_id'].tolist()
PatientIdColumn(rows) == [k \in DOMAIN rows |-> rows[k].patient_id]

\* line 735: a session starts without a selection
InitSelection ==
    /\ env = EnvNone
    /\ patients \in Tables
    /\ selected_patients = {}
    /\ NoRun
    /\ pc = "idle"
    /\ patient = NoValue
    /\ ai_report = NoValue
    /\ pdf_buffer = NoValue
    /\ outcomes = <<>>
    /\ success_count = 0
    /\ error_count = 0
    /\ errors = <<>>
    /\ now = 1
    /\ next_id = MaxPatients + 1
    /\ uploaded = <<>>
    /\ last_op = <<"none">>
    /\ prev_selected = {}

\* lines 764 and 778-785: the Select or Unselect button of a listed patient
ToggleSelection ==
    /\ Idle
    /\ \E rows \in get_all_patients(patients) :
          \E k \in DOMAIN rows :
              LET p == rows[k].patient_id
                  is_selected == p \in selected_patients
                  r == IF is_selected THEN set_discard(selected_patients, p)
                       ELSE set_add(selected_patients, p)
              IN  /\ selected_patients' =
                        IF r.raised THEN selected_patients ELSE r.value
                  /\ escaped' = IF r.raised THEN r.exc ELSE NoValue
                  /\ last_op' = <<"toggle", p>>
    /\ prev_selected' = selected_patients
    /\ UNCHANGED <<env, patients, now, next_id, uploaded, entry, selected_df,
                   idx, total, ui, log, gen_outcome, delivery, df, pc,
                   patient, ai_report, pdf_buffer, outcomes, success_count,
                   error_count, errors>>

\* lines 728-730 and 740-742: Select All, there when a patient is listed
SelectAll ==
    /\ Idle
    /\ \E rows \in get_all_patients(patients) :
          /\ Len(rows) > 0
          /\ selected_patients' = ToSet(PatientIdColumn(rows))
    /\ prev_selected' = selected_patients
    /\ last_op' = <<"select_all">>
    /\ UNCHANGED <<env, patients, now, next_id, uploaded, run_vars, pc,
                   patient, ai_report, pdf_buffer, outcomes, success_count,
                   error_count, errors>>

\* lines 728-730 and 745-747: Clear All
ClearAll ==
    /\ Idle
    /\ Cardinality(patients) > 0
    /\ selected_patients' = {}
    /\ prev_selected' = selected_patients
    /\ last_op' = <<"clear_all">>
    /\ UNCHANGED <<env, patients, now, next_id, uploaded, run_vars, pc,
                   patient, ai_report, pdf_buffer, outcomes, success_count,
                   error_count, errors>>

NextSelection ==
    \/ ToggleSelection
    \/ SelectAll
    \/ ClearAll
    \/ DeletePatient

SpecSelection == InitSelection /\ [][NextSelection]_vars

(***************************************************************************)
(* A session in which patients are selected and deleted and batches are    *)
(* sent, in any order, with or without the mail credentials configured.    *)
(***************************************************************************)
\* an environment with the credentials configured and nothing else
EnvMail ==
    [GEMINI_API_KEY |-> Unset, SENDER_EMAIL |-> "clinic@example.com",
     SENDER_PASSWORD |-> "app-password", SMTP_PORT |-> Unset]

InitSession ==
    /\ env \in {EnvNone, EnvMail}
    /\ patients \in Tables
    /\ selected_patients = {}
    /\ NoRun
    /\ pc = "idle"
    /\ patient = NoValue
    /\ ai_report = NoValue
    /\ pdf_buffer = NoValue
    /\ outcomes = <<>>
    /\ success_count = 0
    /\ error_count = 0
    /\ errors = <<>>
    /\ now = 1
    /\ next_id = MaxPatients + 1
    /\ uploaded = <<>>
    /\ last_op = <<"none">>
    /\ prev_selected = {}

NextSession ==
    \/ ToggleSelection
    \/ SelectAll
    \/ ClearAll
    \/ DeletePatient
    \/ SendBulkReports
    \/ BatchStatus
    \/ BatchGenerate
    \/ BatchRender
    \/ BatchDeliver
    \/ BatchSleep
    \/ BatchProgress
    \/ HandlerEnds

SpecSession == InitSession /\ [][NextSession]_vars

(***************************************************************************)
(* set.add and set.discard on their own, for every set over a few ids.     *)
(***************************************************************************)
MaxSetIds == 4

SetIds == 1..MaxSetIds

InitSetOps ==
    /\ env = EnvNone
    /\ patients = {}
    /\ selected_patients \in SUBSET SetIds
    /\ NoRun
    /\ pc = "idle"
    /\ patient = NoValue
    /\ ai_report = NoValue
    /\ pdf_buffer = NoValue
    /\ outcomes = <<>>
    /\ success_count = 0
    /\ error_count = 0
    /\ errors = <<>>
    /\ now = 1
    /\ next_id = 1
    /\ uploaded = <<>>
    /\ last_op = <<"none">>
    /\ prev_selected = {}

\* the set after the call that gave r, and the exception if it raised
SetOp(name, x, r) ==
    /\ selected_patients' = IF r.raised THEN selected_patients ELSE r.value
    /\ escaped' = IF r.raised THEN r.exc ELSE NoValue
    /\ prev_selected' = selected_patients
    /\ last_op' = <<name, x>>
    /\ UNCHANGED <<env, patients, now, next_id, uploaded, entry, selected_df,
                   idx, total, ui, log, gen_outcome, delivery, df, pc,
                   patient, ai_report, pdf_buffer, outcomes, success_count,
                   error_count, errors>>

\* line 784: selected_patients.add(x)
Add == \E x \in SetIds : SetOp("add", x, set_add(selected_patients, x))

\* line 782: selected_patients.discard(x)
Discard ==
    \E x \in SetIds : SetOp("discard", x, set_discard(selected_patients, x))

NextSetOps == Add \/ Discard

SpecSetOps == InitSetOps /\ [][NextSetOps]_vars

(***************************************************************************)
(* migrate_database, which main() calls on every run of the script, right  *)
(* after init_database.  In this part a created_at cell is the stored      *)
(* text: its form, and for a text in the format of line 513 the second it  *)
(* names.  The tables are those an earlier version of the program or       *)
(* another writer may have left.                                           *)
(***************************************************************************)
\* the format of lines 73 and 513
TimestampFormat == "%Y-%m-%d %H:%M:%S"

\* datetime.now().strftime(TimestampFormat) at second t
Stamp(t) == [form |-> TimestampFormat, t |-> t]

\* a text that names no date
NotADate == [form |-> "not a date", t |-> 0]

\* the empty text
EmptyCell == [form |-> "", t |-> 0]

\* what the created_at column may hold before the migration
LegacyCells == {Stamp(1), NotADate, EmptyCell}

NaT == "NaT"

\* pd.to_datetime(created_at) with the default errors='raise': a Timestamp
\* for a text in a date format, NaT for the empty text, an exception for
\* any other text
to_datetime(cell) ==
    CASE cell.form = TimestampFormat -> Returned(cell.t)
      [] cell.form = "" -> Returned(NaT)
      [] OTHER -> Raised("ParserError")

\* "ok", or the database call that raises: sqlite3.connect (line 494),
\* cursor.execute (lines 498, 503, 514) or conn.commit (line 516)
DbOutcomes == {"ok", "connect", "execute", "commit"}

\* variant of the statement without its WHERE clause
UpdateCreatedAtEverywhere(table, record_id, current_time) ==
    {[r EXCEPT !.created_at = current_time] : r \in table}

\* line 514: UPDATE patients SET created_at = ? WHERE id = ?
UpdateCreatedAt(table, record_id, current_time) ==
    {IF r.id = record_id THEN [r EXCEPT !.created_at = current_time] ELSE r :
        r \in table}

RECURSIVE MigrateRecords(_, _, _)
\* lines 506-514: the loop over the fetched (id, created_at) pairs; clock
\* gives the second at which the pair of an id is handled.  The updates of
\* different ids do not depend on the order of the pairs.
MigrateRecords(table, records, clock) ==
    IF records = {} THEN table
    ELSE LET rec == CHOOSE x \in records : TRUE
         IN  MigrateRecords(
                 IF to_datetime(rec.created_at).raised
                 THEN UpdateCreatedAt(table, rec.id, Stamp(clock[rec.id]))
                 ELSE table,
                 records \ {rec}, clock)

\* lines 491-521: the result of the call, the table it leaves and the line
\* it prints.  An exception of a database call reaches line 520 before the
\* commit of line 516, so no update of this call is kept.
migrate_database(table, db, clock) ==
    IF db = "ok"
    THEN [res |-> Returned(NoValue),
          table |-> MigrateRecords(
                        table,
                        {[id |-> r.id, created_at |-> r.created_at] :
                             r \in table},
                        clock),
          printed |-> <<"Database migration completed successfully">>]
    ELSE [res |-> Returned(NoValue),
          table |-> table,
          printed |-> <<"Database migration error: ", db>>]

LegacyRow(n, cell) == [Row(n, EmailJane) EXCEPT !.created_at = cell]

\* any patients, one row per patient_id, any cell in created_at
LegacyTables ==
    UNION {{{LegacyRow(n, f[n]) : n \in S} : f \in [S -> LegacyCells]} :
           S \in SUBSET PatientIds}

InitMigrate ==
    /\ env = EnvNone
    /\ patients \in LegacyTables
    /\ selected_patients = {}
    /\ NoRun
    /\ pc = "idle"
    /\ patient = NoValue
    /\ ai_report = NoValue
    /\ pdf_buffer = NoValue
    /\ outcomes = <<>>
    /\ success_count = 0
    /\ error_count = 0
    /\ errors = <<>>
    /\ now = 1
    /\ next_id = MaxPatients + 1
    /\ uploaded = <<>>
    /\ last_op = <<"none">>
    /\ prev_selected = {}

\* lines 526-527 with 491-521: the script runs and calls migrate_database;
\* the clock may move on while the loop runs
MigrateDatabase ==
    /\ Idle
    /\ \E db \in DbOutcomes, t \in now..MaxClock :
          \E clock \in [{r.id : r \in patients} -> now..t] :
             LET m == migrate_database(patients, db, clock)
             IN  /\ patients' = m.table
                 /\ escaped' = IF m.res.raised THEN m.res.exc ELSE NoValue
                 /\ outcomes' = <<m.printed>>
                 /\ last_op' = <<"migrate_database", db>>
                 /\ now' = t
    /\ entry' = "migrate_database"
    /\ pc' = "done"
    /\ UNCHANGED <<env, selected_patients, next_id, uploaded, prev_selected,
                   selected_df, idx, total, ui, log, gen_outcome, delivery,
                   df, patient, ai_report, pdf_buffer, success_count,
                   error_count, errors>>

NextMigrate ==
    \/ Tick
    \/ MigrateDatabase
    \/ HandlerEnds

SpecMigrate == InitMigrate /\ [][NextMigrate]_vars

(***************************************************************************)
(* Properties.                                                             *)
(***************************************************************************)
RaisedKinds == {"generate raised", "render raised", "deliver raised"}

Batch == entry = "send_bulk_reports"

BatchDone == Batch /\ pc = "done"

\* how often the call `name` was made for the record at position i
Count(name, i) == Cardinality({k \in DOMAIN log : log[k] = <<name, i>>})

\* the positions, in the order logged, of the events named `name`
RECURSIVE PositionsOf(_, _)
PositionsOf(name, events) ==
    IF events = <<>> THEN <<>>
    ELSE (IF Head(events)[1] = name THEN <<Head(events)[2]>> ELSE <<>>)
             \o PositionsOf(name, Tail(events))

\* the names of the first n records whose outcome is in kinds, in input order
RECURSIVE NamesWhere(_, _)
NamesWhere(n, kinds) ==
    IF n = 0 THEN <<>>
    ELSE NamesWhere(n - 1, kinds)
             \o (IF outcomes[n] \in kinds THEN <<selected_df[n].name>>
                 ELSE <<>>)

\* the place in the error list of the failure of the record at position i
FailRank(i) == Cardinality({k \in 1..i : outcomes[k] # "sent"})

\* C1: when a batch of N records has ended and nothing raised in it, with K
\* the number of records whose delivery returned failure: success_count is
\* N-K, error_count is K, and the error list has K entries that name the
\* failed records in input order.
C1_BatchCounts ==
    (BatchDone /\ \A k \in DOMAIN outcomes : outcomes[k] \notin RaisedKinds)
        => LET N == Len(selected_df)
               K == Cardinality({k \in DOMAIN outcomes :
                                    outcomes[k] = "not sent"})
           IN  /\ Len(outcomes) = N
               /\ success_count = N - K
               /\ error_count = K
               /\ Len(errors) = K
               /\ [k \in 1..Len(errors) |-> errors[k][1]]
                     = NamesWhere(N, {"not sent"})

\* a batch of two records with different names has ended, both deliveries
\* returned failure
C1_Witness ==
    /\ BatchDone
    /\ outcomes = <<"not sent", "not sent">>
    /\ selected_df[1].name # selected_df[2].name

\* C2: in a batch, a record whose rendering raised has no delivery attempt,
\* and its failure is the entry <<name, caught message>> of the error list
\* at the place of that record among the failures; every record that did
\* not succeed is counted once; no exception leaves the handler; and when
\* the batch has ended every record of it has been processed.
C2_RenderFailureIsOneFailure ==
    Batch =>
        /\ escaped = NoValue
        /\ error_count = Cardinality({k \in DOMAIN outcomes :
                                         outcomes[k] # "sent"})
        /\ Len(errors) = error_count
        /\ \A i \in DOMAIN outcomes :
              outcomes[i] = "render raised" =>
                  /\ Count("send_email_with_report", i) = 0
                  /\ errors[FailRank(i)]
                        = <<selected_df[i].name, MsgRenderError>>
        /\ pc = "done" =>
              /\ Len(outcomes) = total
              /\ \A i \in 1..total : Count("generate_ai_report", i) = 1

\* a batch has ended in which the first record's rendering raised and a
\* second record was delivered
C2_Witness ==
    /\ BatchDone
    /\ Len(outcomes) = 2
    /\ outcomes[1] = "render raised"
    /\ outcomes[2] = "sent"

\* C3: the progress notifications of a batch carry the indices 1, 2, ... in
\* this order, one for each record finished so far, and all of 1..N once
\* the batch of N records has ended.
C3_ProgressOncePerRecord ==
    Batch =>
        LET prog == PositionsOf("progress", log)
        IN  /\ \A k \in 1..Len(prog) : prog[k] = k
            /\ Len(prog) = IF pc \in {"done", "b_status"}
                           THEN Len(outcomes) ELSE idx
            /\ pc = "done" => Len(prog) = total

\* a batch of two records has ended, with a raised exception for one record
\* and a failed delivery for the other
C3_Witness ==
    /\ BatchDone
    /\ total = 2
    /\ \E i, j \in DOMAIN outcomes :
          outcomes[i] \in RaisedKinds /\ outcomes[j] = "not sent"

\* the rank of the three steps within one record
StepRank(name) ==
    CASE name = "generate_ai_report" -> 1
      [] name = "create_pdf_report" -> 2
      [] name = "send_email_with_report" -> 3

Steps == {"generate_ai_report", "create_pdf_report", "send_email_with_report"}

\* C4: in the log of a batch, every call made for the record at position i
\* comes before every call made for a record at a later position, and for
\* one record generate comes before render, and render before deliver,
\* each at most once.
C4_OneRecordAtATime ==
    Batch =>
        \A p, q \in DOMAIN log :
            p < q =>
                /\ log[p][2] <= log[q][2]
                /\ (log[p][2] = log[q][2] /\ log[p][1] \in Steps
                        /\ log[q][1] \in Steps)
                       => StepRank(log[p][1]) < StepRank(log[q][1])

\* the second record's generation has started after the first record went
\* through generate, render and deliver
C4_Witness ==
    /\ Batch
    /\ Count("generate_ai_report", 1) = 1
    /\ Count("create_pdf_report", 1) = 1
    /\ Count("send_email_with_report", 1) = 1
    /\ Count("generate_ai_report", 2) = 1

\* the transport credentials are set
CredentialsSet == Truthy(env.SENDER_EMAIL) /\ Truthy(env.SENDER_PASSWORD)

\* C5: generate_ai_report never raises; when it has just returned, the
\* narrative is the "unavailable" sentinel and no external call was made if
\* the model is not configured, and otherwise one external call was made
\* and the narrative is the error sentinel holding the error if that call
\* raised, and the text the call returned if it did not.
C5_GenerateNeverRaises ==
    /\ \A k \in DOMAIN outcomes : outcomes[k] # "generate raised"
    /\ pc \in {"b_render", "s_render"} =>
          IF ~init_gemini(env)
          THEN /\ ai_report = MsgAiUnavailable
               /\ Count("generate_content", Pos) = 0
          ELSE /\ Count("generate_content", Pos) = 1
               /\ ai_report = IF gen_outcome.raises
                              THEN <<"Error generating AI report: ">>
                                       \o gen_outcome.err
                              ELSE gen_outcome.text

\* generate_ai_report has just returned in a batch after the external call
\* raised
C5_Witness ==
    /\ pc = "b_render"
    /\ gen_outcome.raises
    /\ ai_report = <<"Error generating AI report: ">> \o gen_outcome.err

\* C6 as claimed: whenever SENDER_EMAIL or SENDER_PASSWORD is unset, a call
\* of send_email_with_report returns (False, credentials not configured)
\* without raising and without a call on the relay, whatever the record.
C6_Claim ==
    (delivery.called /\ ~CredentialsSet)
        => /\ ~delivery.res.raised
           /\ delivery.res.value = <<FALSE, MsgNoCredentials>>
           /\ delivery.net = <<>>

\* C7 as claimed: with the credentials set and an address that fails
\* validate_email, a call of send_email_with_report returns (False, invalid
\* email format) and makes no call on the relay.
C7_Claim ==
    (delivery.called /\ CredentialsSet /\ ~validate_email(patient.email))
        => /\ ~delivery.res.raised
           /\ delivery.res.value = <<FALSE, MsgInvalidEmail>>
           /\ delivery.net = <<>>

\* C8 as claimed: with the credentials set and a valid address, a call of
\* send_email_with_report does not raise; it returns (True, sent) if every
\* SMTP call completed and (False, "Error sending email: " detail) if one
\* raised.
C8_Claim ==
    (delivery.called /\ CredentialsSet /\ validate_email(patient.email))
        => /\ ~delivery.res.raised
           /\ delivery.res.value =
                 IF delivery.smtp = "ok"
                 THEN <<TRUE, MsgSent>>
                 ELSE <<FALSE, MsgSendError(delivery.smtp)>>

\* C9: in one run no call is repeated for a record: for each position the
\* log holds at most one external generation call, one call of
\* send_email_with_report, one connection and one send_message.
C9_NoRetry ==
    \A i \in {log[k][2] : k \in DOMAIN log} :
        /\ Count("generate_ai_report", i) <= 1
        /\ Count("generate_content", i) <= 1
        /\ Count("send_email_with_report", i) <= 1
        /\ Count("SMTP", i) <= 1
        /\ Count("send_message", i) <= 1

\* a batch has ended whose last delivery failed in send_message
C9_Witness ==
    /\ BatchDone
    /\ delivery.called
    /\ delivery.smtp = "send_message"
    /\ Count("send_message", Pos) = 1

\* C10 as claimed: when a single-record handler has ended, no exception has
\* left it, and a record that was not sent is shown as an error.
C10_Claim ==
    (pc = "done" /\ entry \in SingleEntries)
        => /\ escaped = NoValue
           /\ outcomes # <<"sent">> => (Len(ui) = 1 /\ ui[1][1] = "error")

\* the place in the log of an event that is there once
IndexOf(event) == CHOOSE k \in DOMAIN log : log[k] = event

\* the records of the batch in hand that are followed by another record
\* whose generation has begun
Followed == {i \in 1..total : Count("generate_ai_report", i + 1) = 1}

\* C11 as claimed: in a batch, whenever the generation of the record at
\* position i+1 has begun, the pause of line 858 was made for the record at
\* position i before it, whatever became of that record.
C11_Claim ==
    Batch =>
        \A i \in Followed :
            /\ Count("sleep", i) = 1
            /\ IndexOf(<<"sleep", i>>)
                  < IndexOf(<<"generate_ai_report", i + 1>>)

\* C11 amended: in a batch, a record that is followed by another one has the
\* pause made for it once, after all of its own calls and before the next
\* record's generation begins, when its delivery returned (success or
\* failure); when one of its calls raised there is no pause for it.
C11_DelayAfterCompletedRecord ==
    Batch =>
        \A i \in Followed :
            IF outcomes[i] \in RaisedKinds
            THEN Count("sleep", i) = 0
            ELSE /\ Count("sleep", i) = 1
                 /\ IndexOf(<<"sleep", i>>)
                       < IndexOf(<<"generate_ai_report", i + 1>>)
                 /\ \A k \in DOMAIN log :
                       (log[k][2] = i /\ log[k][1] \notin {"sleep", "progress"})
                           => k < IndexOf(<<"sleep", i>>)

\* the second record's generation has begun after the first record's
\* delivery returned failure
C11_Witness ==
    /\ Batch
    /\ 1 \in Followed
    /\ outcomes[1] = "not sent"

\* what the observer is shown: the status line and the progress bar
Notifications == {"status_text", "progress"}

\* C20 as claimed: in a batch, a notification with index i is issued only
\* after the calls for the record at position i were made and its outcome
\* classified, and before the pause that follows that record.
C20_Claim ==
    Batch =>
        \A k \in DOMAIN log :
            log[k][1] \in Notifications =>
                /\ Len(outcomes) >= log[k][2]
                /\ \E j \in 1..(k - 1) :
                      log[j] = <<"generate_ai_report", log[k][2]>>
                /\ \A j \in 1..(k - 1) : log[j] # <<"sleep", log[k][2]>>

\* C20 amended: in a batch, the status line with index i and the name of the
\* record at position i is the first event of that record, issued before
\* any of its calls; the progress update with index i carries no name and
\* is the last event of that record, after its outcome was classified and
\* after its pause when there is one.
C20_StatusBeforeProgressAfter ==
    Batch =>
        \A k \in DOMAIN log :
            /\ log[k][1] = "status_text" =>
                  /\ log[k][3] = selected_df[log[k][2]].name
                  /\ \A j \in DOMAIN log :
                        log[j][2] = log[k][2] => k <= j
            /\ log[k][1] = "progress" =>
                  /\ Len(log[k]) = 2
                  /\ Len(outcomes) >= log[k][2]
                  /\ \A j \in DOMAIN log :
                        log[j][2] = log[k][2] => j <= k

\* the progress update of the first record was issued after its pause, and
\* the status line of a second record with another name was issued
C20_Witness ==
    /\ Batch
    /\ Count("sleep", 1) = 1
    /\ Count("progress", 1) = 1
    /\ IndexOf(<<"sleep", 1>>) < IndexOf(<<"progress", 1>>)
    /\ total = 2
    /\ <<"status_text", 2, selected_df[2].name>>
          \in {log[k] : k \in DOMAIN log}
    /\ selected_df[1].name # selected_df[2].name

\* the places in the listing of the rows whose patient_id is selected
Kept == {j \in DOMAIN df : df[j].patient_id \in selected_patients}

\* C14: a batch runs on the listing filtered by the selection: when the
\* handler has taken the listing, selected_df holds the rows of the listing
\* whose patient_id is selected, the k-th of them in the listing at place k;
\* no patient is in it twice and its patients are the selected ones that
\* are stored; and the loop takes these rows one after the other: the
\* record in hand is the row at the loop's position, the status lines name
\* the rows at positions 1, 2, ... in this order, and all rows have been
\* taken when the batch has ended.
C14_BatchIsFilteredListing ==
    Batch =>
        /\ df # <<>> =>
              /\ Len(selected_df) = Cardinality(Kept)
              /\ \A j \in Kept :
                    selected_df[Cardinality({m \in Kept : m <= j})] = df[j]
        /\ \A a, b \in DOMAIN selected_df :
              a # b => selected_df[a].patient_id # selected_df[b].patient_id
        /\ {selected_df[k].patient_id : k \in DOMAIN selected_df}
              = selected_patients \cap {r.patient_id : r \in patients}
        /\ pc \in {"b_generate", "b_render", "b_deliver", "b_sleep",
                   "b_progress"} => patient = selected_df[Pos]
        /\ LET told == SelectSeq(log, LAMBDA e : e[1] = "status_text")
           IN  /\ \A k \in DOMAIN told :
                     told[k] = <<"status_text", k, selected_df[k].name>>
               /\ pc = "done" => Len(told) = Len(selected_df)

\* a batch of two records has ended whose listing had the patient with the
\* higher patient_id first
C14_Witness ==
    /\ BatchDone
    /\ Len(selected_df) = 2
    /\ selected_df[1].patient_id > selected_df[2].patient_id
    /\ Len(outcomes) = 2

\* C18 as claimed: in a single-record run with no generation model
\* configured, the narrative is the "unavailable" sentinel, the document is
\* rendered from it, and, unless the rendering itself raised,
\* send_email_with_report is called; when a credential is unset as well,
\* that call returns (False, credentials not configured), which the handler
\* shows as an error, and no exception leaves the handler.
C18_Claim ==
    (entry \in SingleEntries /\ ~init_gemini(env)) =>
        /\ pc = "s_render" => ai_report = MsgAiUnavailable
        /\ pc = "s_deliver" => pdf_buffer = Story(patient, MsgAiUnavailable)
        /\ (pc = "done" /\ outcomes # <<"render raised">>) =>
              /\ delivery.called
              /\ ~CredentialsSet =>
                    /\ delivery.res = Returned(<<FALSE, MsgNoCredentials>>)
                    /\ ui = SingleShown(entry, FALSE, MsgNoCredentials)
                    /\ escaped = NoValue

\* the lines of a text: the pieces between its "\n" tokens
RECURSIVE Lines(_)
Lines(s) ==
    LET ends == {k \in DOMAIN s : s[k] = "\n"}
    IN  IF ends = {}
        THEN <<s>>
        ELSE LET k == CHOOSE e \in ends : \A g \in ends : e <= g
             IN  <<SubSeq(s, 1, k - 1)>> \o Lines(SubSeq(s, k + 1, Len(s)))

\* lines i..j of L put together again
RECURSIVE JoinLines(_, _, _)
JoinLines(L, i, j) ==
    IF i = j THEN L[i] ELSE L[i] \o <<"\n">> \o JoinLines(L, i + 1, j)

\* the segments of a text: the maximal runs of lines without an empty line
\* among them, each without the white space around it, those of white
\* space only left out, in the order of the text
Segments(text) ==
    LET L == Lines(text)
        first == {i \in DOMAIN L :
                     L[i] # <<>> /\ (i = 1 \/ L[i - 1] = <<>>)}
        last(i) == CHOOSE j \in i..Len(L) :
                       /\ \A k \in i..j : L[k] # <<>>
                       /\ j = Len(L) \/ L[j + 1] = <<>>
        kept == {i \in first : Strip(JoinLines(L, i, last(i))) # <<>>}
        nth(k) == CHOOSE i \in kept :
                      Cardinality({h \in kept : h <= i}) = k
    IN  [k \in 1..Cardinality(kept) |->
            Strip(JoinLines(L, nth(k), last(nth(k))))]

\* the blocks of a story between the heading of the analysis and the footer
NarrativeBlocks(story) == SubSeq(story, 7, Len(story) - 2)

\* C17: for every narrative text, the story create_pdf_report builds holds,
\* between the heading and the footer, one Paragraph for each segment of
\* the text that is not blank, with the segment's text, in the order of the
\* segments, each followed by its Spacer, and nothing else; for the empty
\* text the call returns and there is no such block.
C17_ParagraphPerSegment ==
    /\ (pc = "r_done" /\ outcomes = <<"rendered">>) =>
          LET blocks == NarrativeBlocks(pdf_buffer)
              segs == Segments(ai_report)
          IN  /\ Len(blocks) = 2 * Len(segs)
              /\ \A k \in DOMAIN segs :
                    /\ blocks[2 * k - 1]
                          = [type |-> "Paragraph", content |-> segs[k]]
                    /\ blocks[2 * k].type = "Spacer"
              /\ Head(pdf_buffer).content = <<"HEALTH REPORT">>
              /\ pdf_buffer[6].content
                    = <<"Medical Analysis & Recommendations">>
    /\ (pc = "r_done" /\ ai_report = <<>>) =>
          /\ outcomes = <<"rendered">>
          /\ NarrativeBlocks(pdf_buffer) = <<>>

\* a text of two segments has been rendered into two Paragraphs
C17_Witness ==
    /\ pc = "r_done"
    /\ outcomes = <<"rendered">>
    /\ ai_report = <<"b", "\n", "\n", "a">>
    /\ Len(NarrativeBlocks(pdf_buffer)) = 4

\* the row the loop of insert_patient_data has just handled
LastRow == uploaded[1]

\* C15 as claimed: a step that stores a row for a patient_id that is stored
\* already leaves one record under that patient_id, with name, age,
\* diagnosis and e-mail of the new row and the created_at of the record
\* that was there.
C15_Claim ==
    [][\A r \in patients :
          (pc = "u_row" /\ success_count' = success_count + 1
              /\ StripId(LastRow'.Patient_ID) = r.patient_id)
          => /\ Cardinality({q \in patients' :
                                 q.patient_id = r.patient_id}) = 1
             /\ \A q \in patients' :
                   q.patient_id = r.patient_id =>
                       /\ q.name = LastRow'.Name
                       /\ q.age = IntValue[LastRow'.Age]
                       /\ q.diagnosis = LastRow'.Diagnosis
                       /\ q.email = Lower(Strip(LastRow'.Email))
                       /\ q.created_at = r.created_at]_vars

\* C16: no two rows of the patients table have the same patient_id, nor the
\* same id.
C16_UniquePatientId ==
    \A r, q \in patients :
        (r.patient_id = q.patient_id \/ r.id = q.id) => r = q

\* a file of two rows for one patient, the Patient ID of one of them with
\* blanks around it, has been stored: one row is left
C16_Witness ==
    /\ pc = "u_return"
    /\ success_count = 2
    /\ LastRow.Patient_ID.pad
    /\ Cardinality(patients) = 1

\* C19 as claimed: the e-mail of every stored row passes validate_email.
C19_Claim == \A r \in patients : validate_email(r.email)

\* C19 amended: insert_patient_data stores a row whatever its e-mail: when
\* the loop has handled a row whose Age is an integer, the table holds the
\* row's patient with the e-mail of the row, stripped and in lower case,
\* valid or not; a row is turned away, and named in the error list, only
\* for its Age; and every stored e-mail is stripped and in lower case.
C19_StoredWhateverEmail ==
    /\ \A r \in patients :
          r.email = Lower(Strip(r.email))
    /\ (pc \in {"u_row", "u_return"} /\ uploaded # <<>>) =>
          IF LastRow.Age \in {"34", "35"}
          THEN \E r \in patients :
                  /\ r.patient_id = StripId(LastRow.Patient_ID)
                  /\ r.email = Lower(Strip(LastRow.Email))
                  /\ r.id = next_id - 1
          ELSE /\ error_count >= 1
               /\ errors[Len(errors)][2] = idx
    /\ pc \in {"u_row", "u_return"} =>
          /\ success_count + error_count = idx
          /\ Len(errors) = error_count

\* a row whose e-mail fails validate_email has just been stored
C19_Witness ==
    /\ pc = "u_return"
    /\ uploaded # <<>>
    /\ ~validate_email(Lower(Strip(LastRow.Email)))
    /\ \E r \in patients :
          r.id = next_id - 1 /\ ~validate_email(r.email)

\* C12: after add(x) the set holds x, counted once, and what it held
\* before; add(x) on a set that holds x already, as after a first add(x),
\* leaves it as it is; discard(x) on a set that does not hold x leaves it
\* as it is; and neither call raises.
C12_AddDiscardIdempotent ==
    /\ escaped = NoValue
    /\ last_op[1] = "add" =>
          /\ selected_patients = prev_selected \cup {last_op[2]}
          /\ Cardinality(selected_patients)
                = Cardinality(prev_selected \ {last_op[2]}) + 1
          /\ last_op[2] \in prev_selected
                => selected_patients = prev_selected
          /\ set_add(selected_patients, last_op[2])
                = Returned(selected_patients)
    /\ last_op[1] = "discard" =>
          /\ selected_patients = prev_selected \ {last_op[2]}
          /\ last_op[2] \notin prev_selected
                => selected_patients = prev_selected

\* add(x) has been called on the set that held x alone
C12_Witness ==
    /\ last_op[1] = "add"
    /\ prev_selected = {last_op[2]}
    /\ Cardinality(selected_patients) = 1

\* C13: after Select All the selection holds the patient_id of every
\* stored patient and nothing else, whatever it held before: its size is
\* the number of patients, and an id is in it exactly if it is stored.
C13_SelectAllIsAllIds ==
    last_op = <<"select_all">> =>
        /\ selected_patients = {r.patient_id : r \in patients}
        /\ Cardinality(selected_patients) = Cardinality(patients)
        /\ \A p \in PatientIds :
              p \in selected_patients
                  <=> \E r \in patients : r.patient_id = p

\* Select All was pressed when the selection held the id of a patient that
\* had been deleted
C13_Witness ==
    /\ last_op = <<"select_all">>
    /\ selected_patients # {}
    /\ prev_selected \ selected_patients # {}

\* send_message was called in the last delivery and did not raise
MessageAccepted ==
    /\ delivery.called
    /\ delivery.smtp \in {"ok", "quit"}
    /\ <<"send_message", Pos>> \in {log[k] : k \in DOMAIN log}

\* C21 as claimed: whenever send_message completed for a record,
\* send_email_with_report returns (True, sent) and the record is recorded
\* as sent, never as a failure.
C21_Claim ==
    MessageAccepted =>
        /\ delivery.res = Returned(<<TRUE, MsgSent>>)
        /\ outcomes[Len(outcomes)] = "sent"

\* the records of the batch in hand that have been handled: all of them
\* when the batch has ended, those before the loop's position when the
\* next round is about to start
Handled ==
    IF pc = "done" THEN total
    ELSE IF pc = "b_status" THEN idx
    ELSE Len(outcomes)

\* C23: in a batch, the counters are zero when the loop starts; with i
\* records handled success_count + error_count is i and the error list has
\* error_count entries; and every record handled is in one counter:
\* success_count is the number of records sent, error_count the number of
\* the others.
C23_CountersPartitionRecords ==
    Batch =>
        /\ Len(outcomes) \in {idx, idx + 1}
        /\ pc \in {"done", "b_status"} => Len(outcomes) = Handled
        /\ success_count + error_count = Len(outcomes)
        /\ Len(errors) = error_count
        /\ success_count
              = Cardinality({k \in DOMAIN outcomes : outcomes[k] = "sent"})
        /\ (pc = "b_status" /\ idx = 0) =>
              (success_count = 0 /\ error_count = 0 /\ errors = <<>>)

\* a batch of two records has ended with one record sent and one failed
C23_Witness ==
    /\ BatchDone
    /\ success_count = 1
    /\ error_count = 1
    /\ Len(errors) = 1

\* a report handler is running before or after the step
RunStep == pc # "idle" \/ pc' # "idle"

\* C25: no step of a batch or of a single-record run changes the selection
\* or the patients table: from the press of the button to the end of the
\* handler, whatever became of the records, the selection holds the same
\* ids and the table the same rows with the same values.
C25_RunsLeaveSelectionAndStore ==
    [][RunStep => /\ selected_patients' = selected_patients
                  /\ patients' = patients]_vars

\* a batch has ended in which a record was sent and another was not; both
\* are selected and stored as they were
C25_Witness ==
    /\ BatchDone
    /\ \E i, j \in DOMAIN outcomes :
          outcomes[i] = "sent" /\ outcomes[j] # "sent"
    /\ \A k \in DOMAIN selected_df :
          /\ selected_df[k].patient_id \in selected_patients
          /\ selected_df[k] \in patients

\* the patient_ids of the stored patients
LiveIds == {r.patient_id : r \in patients}

\* C24: a deletion leaves the selection as it was, so that the selection
\* may hold the id of a patient that is no longer stored; and a batch runs
\* on the patients that are stored and selected and on no other: an id
\* without a stored patient adds no record, no count and no error, the
\* number of records is at most the size of the selection, and no
\* exception leaves the handler.
C24_StaleIdsAreSkipped ==
    /\ last_op[1] = "delete_patient" =>
          /\ selected_patients = prev_selected
          /\ last_op[2] \notin LiveIds
    /\ Batch =>
          /\ {selected_df[k].patient_id : k \in DOMAIN selected_df}
                = selected_patients \cap LiveIds
          /\ total = Cardinality(selected_patients \cap LiveIds)
          /\ total <= Cardinality(selected_patients)
          /\ Len(outcomes) <= total
          /\ success_count + error_count = Len(outcomes)
          /\ escaped = NoValue
          /\ pc = "done" =>
                /\ Len(outcomes) = total
                /\ ui = BatchResults(success_count, error_count, errors)
                /\ total = 0 => ui = <<>>

\* the one selected patient was deleted and a batch was then sent: it has
\* ended without a record, with the selection still holding the id
C24_Witness ==
    /\ BatchDone
    /\ last_op[1] = "delete_patient"
    /\ selected_patients = {last_op[2]}
    /\ total = 0
    /\ Len(log) = 0

\* a step in which the script calls migrate_database
MigrateStep == pc = "idle" /\ entry' = "migrate_database"

\* the record of the table after the step that has the id of r
After(r) == CHOOSE q \in patients' : q.id = r.id

\* what the claim says of one stored record r: created_at is the time of
\* the call if the parser rejects the stored text, and as before if not;
\* no other field changes
RecordMigrated(r) ==
    /\ \E q \in patients' : q.id = r.id
    /\ After(r) = [r EXCEPT !.created_at = After(r).created_at]
    /\ IF to_datetime(r.created_at).raised
       THEN /\ After(r).created_at.form = TimestampFormat
            /\ After(r).created_at.t \in now..now'
       ELSE After(r).created_at = r.created_at

\* C22 as stated: every call of migrate_database rewrites created_at to
\* the current time for exactly the stored records whose created_at cannot
\* be parsed, leaves everything else of every record as it was, and raises
\* nothing to its caller.
C22_Claim ==
    [][MigrateStep =>
          /\ escaped' = NoValue
          /\ Cardinality(patients') = Cardinality(patients)
          /\ \A r \in patients : RecordMigrated(r)]_vars

\* C22, amended: a call of migrate_database never raises to its caller.  If
\* no database call of it fails, it rewrites created_at to the current time
\* for exactly the stored records whose created_at pd.to_datetime rejects
\* and leaves every other created_at, the empty text included, and every
\* other field of every record unchanged, and prints that the migration
\* completed.  If a database call fails, it prints the error and leaves the
\* whole table unchanged, unparsable created_at included.
C22_MigrationRepairsOrLeaves ==
    [][MigrateStep =>
          /\ escaped' = NoValue
          /\ last_op'[2] \in DbOutcomes
          /\ IF last_op'[2] = "ok"
             THEN /\ Cardinality(patients') = Cardinality(patients)
                  /\ \A r \in patients : RecordMigrated(r)
                  /\ outcomes' =
                        <<<<"Database migration completed successfully">>>>
             ELSE /\ patients' = patients
                  /\ outcomes' =
                        <<<<"Database migration error: ", last_op'[2]>>>>]_vars

\* a migration that completed has rewritten one record at a later second
\* and left another, whose created_at the parser accepts, as it was
C22_Witness ==
    /\ pc = "done"
    /\ entry = "migrate_database"
    /\ last_op = <<"migrate_database", "ok">>
    /\ \E r, q \in patients :
          /\ r.created_at = Stamp(now)
          /\ now > 1
          /\ q.created_at \in {Stamp(1), EmptyCell}

=============================================================================
